---- MODULE Spec2Model ----
(***************************************************************************)
(* Model of github.com/alextanhongpin/stringcases (stringcases.go).        *)
(*                                                                         *)
(* A string is a sequence of runes; a rune is written as a one-element     *)
(* TLA+ string.  "zh" stands for a letter that is neither upper case nor   *)
(* lower case (unicode.IsLetter holds, unicode.IsUpper, unicode.IsLower    *)
(* and unicode.IsNumber do not), such as a CJK ideograph.                  *)
(*                                                                         *)
(* tokenize and its four helpers are translated loop iteration by loop     *)
(* iteration as functions on a configuration (the *Step operators).  The   *)
(* state machine applies one iteration per action; the pure operator       *)
(* tokenize(s) iterates the same steps until tokenize returns.             *)
(***************************************************************************)
EXTENDS Integers, Sequences, FiniteSets, TLC

\* Longest input string the model enumerates.
MaxLen == 4

\* Longest input string of the specification with fairness.
MaxFairLen == 3

\* Longest run of upper-case letters of the specification of long runs.
MaxRun == 6

UpperRunes == {"U", "I", "D"}
LowerRunes == {"u", "i", "d"}
NumberRunes == {"2"}
CaselessLetters == {"zh"}
OtherRunes == {"-", "_"}

\* Runes the inputs are drawn from ("_" only arises in ToSnake output).
Alphabet == UpperRunes \cup LowerRunes \cup NumberRunes \cup CaselessLetters \cup {"-"}

Styles == {"snake", "kebab", "camel", "pascal"}

IsUpper(r) == r \in UpperRunes
IsLower(r) == r \in LowerRunes
IsNumber(r) == r \in NumberRunes
IsLetter(r) == r \in UpperRunes \cup LowerRunes \cup CaselessLetters

commonInitialisms ==
  { <<"A","C","L">>, <<"A","P","I">>, <<"A","S","C","I","I">>, <<"C","P","U">>,
    <<"C","S","S">>, <<"D","N","S">>, <<"E","O","F">>, <<"G","U","I","D">>,
    <<"H","T","M","L">>, <<"H","T","T","P">>, <<"H","T","T","P","S">>,
    <<"I","D">>, <<"I","P">>, <<"J","S","O","N">>, <<"L","H","S">>,
    <<"Q","P","S">>, <<"R","A","M">>, <<"R","H","S">>, <<"R","P","C">>,
    <<"S","L","A">>, <<"S","M","T","P">>, <<"S","Q","L">>, <<"S","S","H">>,
    <<"T","C","P">>, <<"T","L","S">>, <<"T","T","L">>, <<"U","D","P">>,
    <<"U","I">>, <<"U","I","D">>, <<"U","U","I","D">>, <<"U","R","I">>,
    <<"U","R","L">>, <<"U","T","F","8">>, <<"V","M">>, <<"X","M","L">>,
    <<"X","M","P","P">>, <<"X","S","R","F">>, <<"X","S","S">> }

(***************************************************************************)
(* The three cases.Caser objects built by New.                             *)
(***************************************************************************)
upperRune(r) == CASE r = "u" -> "U" [] r = "i" -> "I" [] r = "d" -> "D" [] OTHER -> r
lowerRune(r) == CASE r = "U" -> "u" [] r = "I" -> "i" [] r = "D" -> "d" [] OTHER -> r

\* cases.Lower(t).String
lowercase(tok) == [k \in 1..Len(tok) |-> lowerRune(tok[k])]

\* cases.Upper(t).String
uppercase(tok) == [k \in 1..Len(tok) |-> upperRune(tok[k])]

\* cases.Title(t, cases.NoLower).String on a word without a word break: the
\* first cased letter is title-cased; NoLower leaves every other rune as is.
titlecase(tok) ==
  LET cased == {k \in 1..Len(tok) : IsUpper(tok[k]) \/ IsLower(tok[k])}
  IN IF cased = {} THEN tok
     ELSE LET f == CHOOSE k \in cased : \A j \in cased : k <= j
          IN [tok EXCEPT ![f] = upperRune(tok[f])]

(***************************************************************************)
(* strings.Reader, as far as tokenize uses it: i is the read index,        *)
(* prevRune the index of the rune just read, or -1 when the last operation *)
(* was not a successful ReadRune.                                          *)
(***************************************************************************)
NewReader == [i |-> 0, prevRune |-> -1]

ReadRune(s, rd) ==
  IF rd.i >= Len(s)
  THEN [eof |-> TRUE, r |-> "", rd |-> [i |-> rd.i, prevRune |-> -1]]
  ELSE [eof |-> FALSE, r |-> s[rd.i + 1], rd |-> [i |-> rd.i + 1, prevRune |-> rd.i]]

UnreadRune(rd) ==
  IF rd.i <= 0 \/ rd.prevRune < 0
  THEN [err |-> TRUE, rd |-> rd]
  ELSE [err |-> FALSE, rd |-> [i |-> rd.prevRune, prevRune |-> -1]]

(***************************************************************************)
(* A configuration is [pc, rd, runes, tokens, starts]: the function whose  *)
(* loop is running, the reader, the runes of the token being extracted,    *)
(* the tokens appended so far, and (history only) the 1-based input index  *)
(* at which each token started.                                            *)
(***************************************************************************)
\* `return string(runes)` of a helper followed by tokenize's append.
ReturnToken(c, rd) ==
  [c EXCEPT !.pc = "tokenize", !.rd = rd, !.runes = <<>>,
            !.tokens = Append(c.tokens, c.runes)]

\* `if err := reader.UnreadRune(); err != nil { panic(err) }; return string(runes)`
UnreadAndReturn(c, rd) ==
  LET u == UnreadRune(rd)
  IN IF u.err THEN [c EXCEPT !.pc = "panic", !.rd = u.rd]
     ELSE ReturnToken(c, u.rd)

\* tokenizeStep, but a skipped rune leaves an empty token behind.
tokenizeStepEmptyToken(s, c) ==
  LET rr == ReadRune(s, c.rd)
  IN IF rr.eof THEN [c EXCEPT !.pc = "return", !.rd = rr.rd]
     ELSE CASE IsNumber(rr.r) \/ IsLower(rr.r) ->
                 [c EXCEPT !.pc = "extractLower", !.rd = rr.rd, !.runes = <<rr.r>>,
                           !.starts = Append(c.starts, rr.rd.i)]
            [] IsUpper(rr.r) ->
                 [c EXCEPT !.pc = "extractUpper", !.rd = rr.rd, !.runes = <<rr.r>>,
                           !.starts = Append(c.starts, rr.rd.i)]
            [] OTHER -> [c EXCEPT !.rd = rr.rd, !.tokens = Append(c.tokens, <<>>),
                                  !.starts = Append(c.starts, rr.rd.i)]

\* One iteration of tokenize's loop.
tokenizeStep(s, c) ==
  LET rr == ReadRune(s, c.rd)
  IN IF rr.eof THEN [c EXCEPT !.pc = "return", !.rd = rr.rd]
     ELSE CASE IsNumber(rr.r) \/ IsLower(rr.r) ->
                 [c EXCEPT !.pc = "extractLower", !.rd = rr.rd, !.runes = <<rr.r>>,
                           !.starts = Append(c.starts, rr.rd.i)]
            [] IsUpper(rr.r) ->
                 [c EXCEPT !.pc = "extractUpper", !.rd = rr.rd, !.runes = <<rr.r>>,
                           !.starts = Append(c.starts, rr.rd.i)]
            [] OTHER -> [c EXCEPT !.rd = rr.rd]

\* extractUpperStep, but a digit after the first upper-case letter is pushed
\* back instead of starting a camel-case word.
extractUpperStepDigitBreaks(s, c) ==
  LET rr == ReadRune(s, c.rd)
  IN IF rr.eof THEN ReturnToken(c, rr.rd)
     ELSE CASE IsUpper(rr.r) ->
                 [c EXCEPT !.pc = "extractCommonInitialism", !.rd = rr.rd,
                           !.runes = Append(c.runes, rr.r)]
            [] IsLower(rr.r) ->
                 [c EXCEPT !.pc = "extractCamel", !.rd = rr.rd,
                           !.runes = Append(c.runes, rr.r)]
            [] IsNumber(rr.r) -> UnreadAndReturn(c, rr.rd)
            [] OTHER -> ReturnToken(c, rr.rd)

\* One iteration of extractUpper's loop (every branch leaves the loop).
extractUpperStep(s, c) ==
  LET rr == ReadRune(s, c.rd)
  IN IF rr.eof THEN ReturnToken(c, rr.rd)
     ELSE CASE IsUpper(rr.r) ->
                 [c EXCEPT !.pc = "extractCommonInitialism", !.rd = rr.rd,
                           !.runes = Append(c.runes, rr.r)]
            [] IsLower(rr.r) \/ IsNumber(rr.r) ->
                 [c EXCEPT !.pc = "extractCamel", !.rd = rr.rd,
                           !.runes = Append(c.runes, rr.r)]
            [] OTHER -> ReturnToken(c, rr.rd)

\* extractLowerStep, but after pushing back an upper-case rune the loop goes
\* on instead of returning.
extractLowerStepNoReturn(s, c) ==
  LET rr == ReadRune(s, c.rd)
  IN IF rr.eof THEN ReturnToken(c, rr.rd)
     ELSE CASE IsUpper(rr.r) -> [c EXCEPT !.rd = UnreadRune(rr.rd).rd]
            [] IsLower(rr.r) \/ IsNumber(rr.r) ->
                 [c EXCEPT !.rd = rr.rd, !.runes = Append(c.runes, rr.r)]
            [] OTHER -> ReturnToken(c, rr.rd)

\* One iteration of extractLower's loop.
extractLowerStep(s, c) ==
  LET rr == ReadRune(s, c.rd)
  IN IF rr.eof THEN ReturnToken(c, rr.rd)
     ELSE CASE IsUpper(rr.r) -> UnreadAndReturn(c, rr.rd)
            [] IsLower(rr.r) \/ IsNumber(rr.r) ->
                 [c EXCEPT !.rd = rr.rd, !.runes = Append(c.runes, rr.r)]
            [] OTHER -> ReturnToken(c, rr.rd)

\* extractCommonInitialismStep, but a run that has reached five letters ends
\* there whether or not it is a common initialism.
extractCommonInitialismStepCapAtFive(s, c) ==
  LET rr == ReadRune(s, c.rd)
  IN IF rr.eof THEN ReturnToken(c, rr.rd)
     ELSE CASE IsUpper(rr.r) ->
                 LET runes2 == Append(c.runes, rr.r)
                     c2 == [c EXCEPT !.rd = rr.rd, !.runes = runes2]
                 IN IF Len(runes2) >= 5 \/ (Len(runes2) >= 2 /\ runes2 \in commonInitialisms)
                    THEN ReturnToken(c2, rr.rd)
                    ELSE c2
            [] IsLower(rr.r) \/ IsNumber(rr.r) -> UnreadAndReturn(c, rr.rd)
            [] OTHER -> ReturnToken(c, rr.rd)

\* One iteration of extractCommonInitialism's loop.
extractCommonInitialismStep(s, c) ==
  LET rr == ReadRune(s, c.rd)
  IN IF rr.eof THEN ReturnToken(c, rr.rd)
     ELSE CASE IsUpper(rr.r) ->
                 LET runes2 == Append(c.runes, rr.r)
                     c2 == [c EXCEPT !.rd = rr.rd, !.runes = runes2]
                 IN IF Len(runes2) >= 2 /\ Len(runes2) <= 5 /\ runes2 \in commonInitialisms
                    THEN ReturnToken(c2, rr.rd)
                    ELSE c2
            [] IsLower(rr.r) \/ IsNumber(rr.r) -> UnreadAndReturn(c, rr.rd)
            [] OTHER -> ReturnToken(c, rr.rd)

\* extractCamelStep, but the rune is pushed back at end of input too.
extractCamelStepUnreadAtEOF(s, c) ==
  LET rr == ReadRune(s, c.rd)
  IN IF rr.eof THEN UnreadAndReturn(c, rr.rd)
     ELSE CASE IsUpper(rr.r) -> UnreadAndReturn(c, rr.rd)
            [] IsLower(rr.r) \/ IsNumber(rr.r) ->
                 [c EXCEPT !.rd = rr.rd, !.runes = Append(c.runes, rr.r)]
            [] OTHER -> ReturnToken(c, rr.rd)

\* One iteration of extractCamel's loop.
extractCamelStep(s, c) ==
  LET rr == ReadRune(s, c.rd)
  IN IF rr.eof THEN ReturnToken(c, rr.rd)
     ELSE CASE IsUpper(rr.r) -> UnreadAndReturn(c, rr.rd)
            [] IsLower(rr.r) \/ IsNumber(rr.r) ->
                 [c EXCEPT !.rd = rr.rd, !.runes = Append(c.runes, rr.r)]
            [] OTHER -> ReturnToken(c, rr.rd)

StartConfig ==
  [pc |-> "tokenize", rd |-> NewReader, runes |-> <<>>, tokens |-> <<>>, starts |-> <<>>]

StepConfig(s, c) ==
  CASE c.pc = "tokenize" -> tokenizeStep(s, c)
    [] c.pc = "extractUpper" -> extractUpperStep(s, c)
    [] c.pc = "extractLower" -> extractLowerStep(s, c)
    [] c.pc = "extractCommonInitialism" -> extractCommonInitialismStep(s, c)
    [] c.pc = "extractCamel" -> extractCamelStep(s, c)

RECURSIVE RunConfig(_, _)
RunConfig(s, c) ==
  IF c.pc \in {"return", "panic"} THEN c ELSE RunConfig(s, StepConfig(s, c))

\* tokenize(s): the token list the function returns.
tokenize(s) == RunConfig(s, StartConfig).tokens

(***************************************************************************)
(* The four conversions: the per-token strings (the local slice the code   *)
(* calls runes) and strings.Join.                                          *)
(***************************************************************************)
RECURSIVE Join(_, _)
Join(elems, sep) ==
  IF Len(elems) = 0 THEN <<>>
  ELSE IF Len(elems) = 1 THEN elems[1]
  ELSE elems[1] \o sep \o Join(Tail(elems), sep)

snakeParts(toks) == [k \in 1..Len(toks) |-> lowercase(toks[k])]

kebabParts(toks) == [k \in 1..Len(toks) |-> lowercase(toks[k])]

camelParts(toks) ==
  [k \in 1..Len(toks) |->
     IF k = 1 THEN lowercase(toks[k])
     ELSE IF uppercase(toks[k]) \in commonInitialisms THEN uppercase(toks[k])
     ELSE titlecase(toks[k])]

\* pascalParts without the lookup in commonInitialisms.
pascalPartsNoInitialisms(toks) == [k \in 1..Len(toks) |-> titlecase(toks[k])]

pascalParts(toks) ==
  [k \in 1..Len(toks) |->
     IF uppercase(toks[k]) \in commonInitialisms THEN uppercase(toks[k])
     ELSE titlecase(toks[k])]

ToSnake(s) == Join(snakeParts(tokenize(s)), <<"_">>)
\* ToKebab joining the tokens without the "-".
ToKebabNoSeparator(s) == Join(kebabParts(tokenize(s)), <<>>)

ToKebab(s) == Join(kebabParts(tokenize(s)), <<"-">>)
ToCamel(s) == Join(camelParts(tokenize(s)), <<>>)
ToPascal(s) == Join(pascalParts(tokenize(s)), <<>>)

Format(st, s) ==
  CASE st = "snake" -> ToSnake(s)
    [] st = "kebab" -> ToKebab(s)
    [] st = "camel" -> ToCamel(s)
    [] st = "pascal" -> ToPascal(s)

(***************************************************************************)
(* State machine: one conversion of one input.                             *)
(***************************************************************************)
VARIABLES input, style, pc, rd, runes, tokens, starts, parts, result

vars == <<input, style, pc, rd, runes, tokens, starts, parts, result>>

RECURSIVE StringsUpTo(_)
StringsUpTo(n) ==
  IF n = 0 THEN {<<>>}
  ELSE LET shorter == StringsUpTo(n - 1)
       IN shorter \cup {Append(w, r) : w \in {v \in shorter : Len(v) = n - 1}, r \in Alphabet}

Inputs == StringsUpTo(MaxLen)

Config == [pc |-> pc, rd |-> rd, runes |-> runes, tokens |-> tokens, starts |-> starts]

SetConfig(c) ==
  /\ pc' = c.pc
  /\ rd' = c.rd
  /\ runes' = c.runes
  /\ tokens' = c.tokens
  /\ starts' = c.starts

Init ==
  /\ input \in Inputs
  /\ style = "none"
  /\ pc = "idle"
  /\ rd = NewReader
  /\ runes = <<>>
  /\ tokens = <<>>
  /\ starts = <<>>
  /\ parts = <<>>
  /\ result = <<>>

\* A caller invokes one of ToSnake, ToKebab, ToCamel, ToPascal on the input;
\* the conversion starts with tokenize creating its reader.
Call ==
  /\ pc = "idle"
  /\ \E st \in Styles : style' = st
  /\ SetConfig(StartConfig)
  /\ UNCHANGED <<input, parts, result>>

TokenizeLoop ==
  /\ pc = "tokenize"
  /\ SetConfig(tokenizeStep(input, Config))
  /\ UNCHANGED <<input, style, parts, result>>

ExtractUpperLoop ==
  /\ pc = "extractUpper"
  /\ SetConfig(extractUpperStep(input, Config))
  /\ UNCHANGED <<input, style, parts, result>>

ExtractLowerLoop ==
  /\ pc = "extractLower"
  /\ SetConfig(extractLowerStep(input, Config))
  /\ UNCHANGED <<input, style, parts, result>>

ExtractCommonInitialismLoop ==
  /\ pc = "extractCommonInitialism"
  /\ SetConfig(extractCommonInitialismStep(input, Config))
  /\ UNCHANGED <<input, style, parts, result>>

ExtractCamelLoop ==
  /\ pc = "extractCamel"
  /\ SetConfig(extractCamelStep(input, Config))
  /\ UNCHANGED <<input, style, parts, result>>

Finish(ps, sep) ==
  /\ parts' = ps
  /\ result' = Join(ps, sep)
  /\ pc' = "done"
  /\ UNCHANGED <<input, style, rd, runes, tokens, starts>>

SnakeReturn == pc = "return" /\ style = "snake" /\ Finish(snakeParts(tokens), <<"_">>)

KebabReturn == pc = "return" /\ style = "kebab" /\ Finish(kebabParts(tokens), <<"-">>)

CamelReturn == pc = "return" /\ style = "camel" /\ Finish(camelParts(tokens), <<>>)

PascalReturn == pc = "return" /\ style = "pascal" /\ Finish(pascalParts(tokens), <<>>)

Next ==
  \/ Call
  \/ TokenizeLoop
  \/ ExtractUpperLoop
  \/ ExtractLowerLoop
  \/ ExtractCommonInitialismLoop
  \/ ExtractCamelLoop
  \/ SnakeReturn
  \/ KebabReturn
  \/ CamelReturn
  \/ PascalReturn

Spec == Init /\ [][Next]_vars

\* A call, once made, keeps running: the conversion is sequential code with
\* no blocking operation, so an enabled step is eventually taken.
\* Its inputs are the strings of at most MaxFairLen runes.
InitFair ==
  /\ input \in StringsUpTo(MaxFairLen)
  /\ style = "none"
  /\ pc = "idle"
  /\ rd = NewReader
  /\ runes = <<>>
  /\ tokens = <<>>
  /\ starts = <<>>
  /\ parts = <<>>
  /\ result = <<>>

RECURSIVE UpperStringsUpTo(_)
UpperStringsUpTo(n) ==
  IF n = 0 THEN {<<>>}
  ELSE LET shorter == UpperStringsUpTo(n - 1)
       IN shorter \cup {Append(w, r) : w \in {v \in shorter : Len(v) = n - 1}, r \in UpperRunes}

\* Inputs that begin with a run of 2 to MaxRun upper-case letters, followed by
\* at most one more rune.
LongRunInputs ==
  {run \o tail : run \in {w \in UpperStringsUpTo(MaxRun) : Len(w) >= 2},
                 tail \in StringsUpTo(1)}

InitLongRuns ==
  /\ input \in LongRunInputs
  /\ style = "none"
  /\ pc = "idle"
  /\ rd = NewReader
  /\ runes = <<>>
  /\ tokens = <<>>
  /\ starts = <<>>
  /\ parts = <<>>
  /\ result = <<>>

SpecLongRuns == InitLongRuns /\ [][Next]_vars

SpecFair == InitFair /\ [][Next]_vars /\ WF_vars(Next)

TypeOK ==
  /\ pc \in {"idle", "tokenize", "extractUpper", "extractLower",
             "extractCommonInitialism", "extractCamel", "return", "done", "panic"}
  /\ rd.i \in 0..Len(input)
  /\ Len(tokens) <= Len(input)

(***************************************************************************)
(* Helpers for stating the properties.                                     *)
(***************************************************************************)
IsOther(r) == ~IsLetter(r) /\ ~IsNumber(r)

IsCased(r) == IsUpper(r) \/ IsLower(r)

Range(f) == {f[k] : k \in DOMAIN f}

Done == pc = "done"

\* The word "first letter upper, remainder lower" describes.
FirstUpperRestLower(tok) ==
  LET cased == {k \in 1..Len(tok) : IsCased(tok[k])}
  IN [k \in 1..Len(tok) |->
        IF k \in cased /\ (\A j \in cased : k <= j) THEN upperRune(tok[k])
        ELSE lowerRune(tok[k])]

\* C1: converting to any style A and then to any style B gives the same
\* string as converting the input directly to B.
C1_RoundTripThroughAnyStyle ==
  Done => \A b \in Styles : Format(b, result) = Format(b, input)

\* C2: applying a conversion to its own output changes nothing.
C2_Idempotence ==
  Done => Format(style, result) = result

\* C3 (as claimed): a token whose upper-cased form is a common initialism is
\* emitted in all caps by ToCamel and ToPascal at every position, and
\* lower-cased by ToSnake and ToKebab.
C3_AcronymAllCapsEverywhere ==
  Done => \A k \in 1..Len(tokens) :
            uppercase(tokens[k]) \in commonInitialisms =>
              /\ style \in {"camel", "pascal"} => parts[k] = uppercase(tokens[k])
              /\ style \in {"snake", "kebab"} => parts[k] = lowercase(tokens[k])

\* C3 (amended): such a token is emitted in all caps by ToPascal at every
\* position and by ToCamel at every position but the first, lower-cased by
\* ToCamel at the first position and by ToSnake and ToKebab everywhere; the
\* output is the emitted tokens joined by the style's separator.
C3_AcronymPreserved ==
  Done =>
    /\ \A k \in 1..Len(tokens) :
         uppercase(tokens[k]) \in commonInitialisms =>
           /\ style = "pascal" => parts[k] = uppercase(tokens[k])
           /\ style = "camel" /\ k > 1 => parts[k] = uppercase(tokens[k])
           /\ style = "camel" /\ k = 1 => parts[k] = lowercase(tokens[k])
           /\ style \in {"snake", "kebab"} => parts[k] = lowercase(tokens[k])
    /\ Len(parts) = Len(tokens)
    /\ result = Join(parts, CASE style = "snake" -> <<"_">>
                              [] style = "kebab" -> <<"-">>
                              [] OTHER -> <<>>)

\* ToCamel of an input such as idId: a lower-cased initialism first, then one
\* written in mixed case.
C3_Witness ==
  /\ Done
  /\ style = "camel"
  /\ Len(tokens) >= 2
  /\ uppercase(tokens[1]) \in commonInitialisms
  /\ uppercase(tokens[2]) \in commonInitialisms
  /\ tokens[2] # uppercase(tokens[2])
  /\ parts[2] = uppercase(tokens[2])

\* The places where the input has a run of non-letter-non-digit runes with a
\* word on each side: <<i, j>> with input[i..j] all such runes.
SeparatorRuns ==
  {ij \in (1..Len(input)) \X (1..Len(input)) :
     /\ ij[1] <= ij[2]
     /\ \A k \in ij[1]..ij[2] : IsOther(input[k])
     /\ Len(tokenize(SubSeq(input, 1, ij[1] - 1))) > 0
     /\ Len(tokenize(SubSeq(input, ij[2] + 1, Len(input)))) > 0}

\* C4: a run of non-letter-non-digit runes between two words becomes exactly
\* one "_" (ToSnake) or "-" (ToKebab) and nothing at all in ToCamel and
\* ToPascal; no output has two adjacent separators, and a camel or pascal
\* output has none.
C4_SeparatorCollapsing ==
  Done =>
    /\ \A ij \in SeparatorRuns :
         LET before == SubSeq(input, 1, ij[1] - 1)
             after == SubSeq(input, ij[2] + 1, Len(input))
         IN CASE style = "snake" -> result = ToSnake(before) \o <<"_">> \o ToSnake(after)
              [] style = "kebab" -> result = ToKebab(before) \o <<"-">> \o ToKebab(after)
              [] style = "camel" -> result = ToCamel(before) \o ToPascal(after)
              [] style = "pascal" -> result = ToPascal(before) \o ToPascal(after)
    /\ \A k \in 1..(Len(result) - 1) : ~(IsOther(result[k]) /\ IsOther(result[k + 1]))
    /\ style \in {"camel", "pascal"} => \A k \in 1..Len(result) : ~IsOther(result[k])
    /\ style = "snake" => Cardinality({k \in 1..Len(result) : result[k] = "_"}) = Len(tokens) - (IF Len(tokens) = 0 THEN 0 ELSE 1)
    /\ style = "kebab" => Cardinality({k \in 1..Len(result) : result[k] = "-"}) = Len(tokens) - (IF Len(tokens) = 0 THEN 0 ELSE 1)

\* ToSnake of an input with a run of two separators between two words.
C4_Witness ==
  /\ Done
  /\ style = "snake"
  /\ \E ij \in SeparatorRuns : ij[2] > ij[1]
  /\ Len(tokens) = 2

\* C5: no conversion fails: the panic guarding UnreadRune is never taken, and
\* a finished conversion has produced a string.
C5_NeverPanics ==
  /\ pc # "panic"
  /\ Done => result \in Seq(Alphabet \cup OtherRunes)

\* tokenize is back in its loop just after an extraction pushed a rune back.
C5_Witness ==
  /\ pc = "tokenize"
  /\ rd.prevRune = -1
  /\ rd.i > 0
  /\ rd.i < Len(input)
  /\ Len(tokens) > 0

UpperRunAt(p) ==
  LET ends == {q \in p..Len(input) : \A k \in p..q : IsUpper(input[k])}
  IN SubSeq(input, p, CHOOSE q \in ends : \A e \in ends : e <= q)

\* C8: a token that starts with two upper-case letters ends at the shortest
\* prefix, of length 2 to 5, of its upper-case run that is a common
\* initialism, when the run has such a prefix.
C8_ShortestInitialismPrefix ==
  Done =>
    \A k \in 1..Len(tokens) :
      LET p == starts[k]
      IN (p < Len(input) /\ IsUpper(input[p]) /\ IsUpper(input[p + 1])) =>
           LET run == UpperRunAt(p)
               hits == {n \in 2..5 : n <= Len(run) /\ SubSeq(run, 1, n) \in commonInitialisms}
           IN hits # {} =>
                tokens[k] = SubSeq(run, 1, CHOOSE n \in hits : \A m \in hits : n <= m)

\* The indices of the digits of the input that immediately follow an
\* upper-case or lower-case letter.
DigitsAfterLetters ==
  {p \in 2..Len(input) : IsNumber(input[p]) /\ IsCased(input[p - 1])}

\* C9 (as claimed): a digit that immediately follows letters never starts a
\* token of its own.
C9_DigitNeverSplitOff ==
  Done => \A p \in DigitsAfterLetters : p \notin Range(starts)

\* C9 (amended): a digit that immediately follows a lower-case letter, or an
\* upper-case letter that is the first rune of its token, is absorbed into
\* that token; a digit that follows an upper-case letter that is not the
\* first rune of its token (the end of a run of upper-case letters) is pushed
\* back and starts a new token.
C9_DigitAbsorbedUnlessAfterUpperRun ==
  Done =>
    \A p \in DigitsAfterLetters :
      (p \in Range(starts)) <=> (IsUpper(input[p - 1]) /\ (p - 1) \notin Range(starts))

\* An input such as DD2, where the digit follows a run of upper-case letters
\* and becomes a token of its own.
C9_Witness ==
  /\ Done
  /\ \E p \in DigitsAfterLetters : p \in Range(starts) /\ IsUpper(input[p - 1])
  /\ \E k \in 1..Len(tokens) : Len(tokens[k]) = 1 /\ IsNumber(tokens[k][1])

\* C10: ToPascal, and ToCamel after the first token, emit a token whose
\* upper-cased form is not a common initialism with its first letter in upper
\* case and every other letter in lower case.
C10_TitleCaseLowersTheRest ==
  (Done /\ style \in {"camel", "pascal"}) =>
    \A k \in 1..Len(tokens) :
      (uppercase(tokens[k]) \notin commonInitialisms /\ (style = "camel" => k > 1)) =>
        parts[k] = FirstUpperRestLower(tokens[k])

IsLetterOrNumber(r) == IsLetter(r) \/ IsNumber(r)

\* C11: tokenize discards exactly the runes that are neither a letter nor a
\* digit: every token is non-empty and free of such runes, and the tokens
\* concatenated in order are the input without those runes (letters that are
\* neither upper case nor lower case included).
C11_OnlySeparatorsDiscarded ==
  Done =>
    /\ \A k \in 1..Len(tokens) :
         /\ tokens[k] # <<>>
         /\ \A j \in 1..Len(tokens[k]) : ~IsOther(tokens[k][j])
    /\ Join(tokens, <<>>) = SelectSeq(input, IsLetterOrNumber)

Extracting ==
  pc \in {"extractUpper", "extractLower", "extractCommonInitialism", "extractCamel"}

Scanning == pc = "tokenize" \/ Extracting

\* What is left to do: the runes not yet consumed, counted twice, plus one
\* while an extraction is still to return.
Remaining == 2 * (Len(input) - rd.i) + (IF Extracting THEN 1 ELSE 0)

\* tokenize is back in its loop right after an extraction pushed a rune back.
JustUnread == pc = "tokenize" /\ rd.prevRune = -1 /\ rd.i > 0 /\ rd.i < Len(input)

LastOf(seq) == seq[Len(seq)]

\* The cursor stands just past the runes of the token being extracted, and,
\* back in tokenize's loop, at or past the last rune of the last token, so an
\* iteration of the outer loop that produced a token has advanced the cursor
\* by at least one rune net of its pushback.
CursorAdvanced ==
  /\ Extracting => Len(runes) >= 1 /\ rd.i = LastOf(starts) + Len(runes) - 1
  /\ (pc \in {"tokenize", "return", "done"} /\ Len(tokens) > 0) =>
       rd.i >= LastOf(starts) + Len(LastOf(tokens)) - 1
  /\ \A k \in 1..(Len(starts) - 1) : starts[k] < starts[k + 1]
  /\ Len(tokens) <= Len(input)

\* Every loop iteration makes progress, leaves the scan only by tokenize's
\* return at end of input, and a pushed-back rune is the first rune of the
\* token the next iteration starts.
ScanStep ==
  /\ (Scanning /\ Scanning') => Remaining' < Remaining
  /\ (Scanning /\ ~Scanning') => (pc' = "return" /\ rd'.i = Len(input))
  /\ JustUnread => (pc' \in {"extractUpper", "extractLower"} /\ starts' = Append(starts, rd.i + 1))

\* C12: tokenize terminates on every input: each iteration of its loops
\* advances the cursor (an extraction pushes back at most the one rune it has
\* just read, after consuming at least one), a pushed-back rune starts the
\* next token, and the conversion ends with a finite token list.
C12_TokenizeTerminates ==
  /\ []CursorAdvanced
  /\ [][ScanStep]_vars
  /\ <>Done

\* A finished conversion in which a token ended by pushing back the first
\* rune of the next one (no rune lies between the two tokens and the second
\* starts with a change of case).
C12_Witness ==
  /\ Done
  /\ \E k \in 1..(Len(tokens) - 1) :
       /\ starts[k + 1] = starts[k] + Len(tokens[k])
       /\ IsUpper(input[starts[k + 1]]) # IsUpper(input[starts[k + 1] - 1])

\* The token starts at index p of the input with two upper-case letters, and
\* no prefix of length 2 to 5 of the upper-case run there is a common
\* initialism.
UnregisteredRunAt(p) ==
  /\ p < Len(input)
  /\ IsUpper(input[p])
  /\ IsUpper(input[p + 1])
  /\ \A n \in 2..5 :
       n <= Len(UpperRunAt(p)) => SubSeq(UpperRunAt(p), 1, n) \notin commonInitialisms

\* C13: a run of two or more upper-case letters none of whose prefixes of
\* length 2 to 5 is a common initialism is one token, whatever its length; it
\* ends at the first rune that is not an upper-case letter, and when that rune
\* is a lower-case letter or a digit it is pushed back and starts the next
\* token (otherwise it starts none).
C13_UnregisteredRunIsOneToken ==
  Done =>
    \A k \in 1..Len(tokens) :
      UnregisteredRunAt(starts[k]) =>
        LET run == UpperRunAt(starts[k])
            q == starts[k] + Len(run)
        IN /\ tokens[k] = run
           /\ q <= Len(input) =>
                ((IsLower(input[q]) \/ IsNumber(input[q])) <=> q \in Range(starts))

\* A run of more than five upper-case letters, kept as one token, followed by
\* a lower-case letter or digit that starts the next token.
C13_Witness ==
  /\ Done
  /\ Len(tokens) = 2
  /\ UnregisteredRunAt(1)
  /\ Len(tokens[1]) > 5
  /\ starts[2] = Len(tokens[1]) + 1

====
